---- MODULE Spec2Model ----
(***************************************************************************)
(* B2B inventory management: the product-creation transaction              *)
(* (improved_endpoint.py, POST /add_product) and the two read endpoints    *)
(* (api_implementation.py, low-stock alerts and reorder suggestions).      *)
(*                                                                         *)
(* The relational store is external.  Its statements are modelled by their *)
(* SQL meaning: reads see committed rows plus the transaction's own        *)
(* writes, writes are buffered until COMMIT, the products table rejects a  *)
(* second row with an existing sku, and any statement may fail with a      *)
(* store error (lock timeout, malformed statement, ...).                   *)
(***************************************************************************)
EXTENDS Integers, Sequences, FiniteSets, TLC

(***************************************************************************)
(* Bounds                                                                  *)
(***************************************************************************)
NumReq == 2            \* concurrent POST /add_product requests
MaxQty == 1            \* largest quantity a create request carries
MaxStock == 2          \* largest current_stock of an inventory row (read paths)
MaxThreshold == 2      \* largest low_stock_threshold (SpecSort)
NumSortRows == 2       \* products in the store of SpecSort
NumNames == 2          \* distinct product names in SpecSort
MaxProjStock == 32     \* largest current_stock given to the stockout projector
MaxProjThreshold == 10 \* largest threshold given to the stockout projector
MaxSaleDays == 3       \* most distinct sale days given to the projector
MaxSaleTotal == 4      \* most units sold given to the projector

Req == 1..NumReq

VARIABLES
  products,     \* committed rows of table products
  inventory,    \* committed rows of table inventory
  inv_txns,     \* committed rows of table inventory_transactions
  pending,      \* per request: rows written inside its open transaction
  pc,           \* per request: position in add_product
  req,          \* per request: the locals sku, warehouse_id, quantity
  status,       \* per request: HTTP status returned (0 = none yet)
  cause,        \* per request: what ended it (history, for the claims)
  db,           \* read paths: the store content the queries run on
  resp          \* read paths: the last response

writeVars == <<products, inventory, inv_txns, pending, pc, req, status, cause>>
readVars == <<db, resp>>
vars == <<products, inventory, inv_txns, pending, pc, req, status, cause, db, resp>>

(***************************************************************************)
(* POST /add_product: request parsing and validation                       *)
(***************************************************************************)
SPACE == " "

\* str.strip(): drop leading, then trailing, whitespace
RECURSIVE LStrip(_)
LStrip(s) == IF s = <<>> THEN <<>>
             ELSE IF Head(s) = SPACE THEN LStrip(Tail(s)) ELSE s

RECURSIVE RStrip(_)
RStrip(s) == IF s = <<>> THEN <<>>
             ELSE IF s[Len(s)] = SPACE THEN RStrip(SubSeq(s, 1, Len(s) - 1)) ELSE s

Strip_None(s) == s

Strip(s) == RStrip(LStrip(s))

\* int(): the request carries the field as text; a non-numeric text raises ValueError
IntTexts == {"-1", "0", "1", "2", "3", "4"}

IntOf(t) == CASE t = "-1" -> -1 [] t = "0" -> 0 [] t = "1" -> 1
              [] t = "2" -> 2 [] t = "3" -> 3 [] t = "4" -> 4 [] OTHER -> 0

IsIntText(t) == t \in IntTexts

\* Decimal(str(price)): "ok" parses and is >= 0, "neg" parses and is < 0, "bad" does not parse
PriceKinds == {"ok", "neg", "bad"}

RawSkus == {<<>>, <<SPACE>>, <<"a">>, <<SPACE, "a">>, <<"a", SPACE>>, <<"b">>}
RawNames == {<<SPACE>>, <<"n">>}
RawWarehouses == {"1", "2", "x"}
RawQuantities == {"-1", "x"} \cup {t \in IntTexts : IntOf(t) >= 0 /\ IntOf(t) <= MaxQty}

\* the JSON body: complete = every required field present and not None
DataInputs == [complete : BOOLEAN, sku : RawSkus, name : RawNames,
               warehouse_id : RawWarehouses, quantity : RawQuantities, price : PriceKinds]

ExistingWarehouses == {1}

NoReq == [sku |-> <<>>, warehouse_id |-> 0, quantity |-> 0]

\* lines 31-60: the status the validation ends the request with, 0 when it passes
Validate(data) ==
  IF ~data.complete THEN 400
  ELSE IF ~IsIntText(data.warehouse_id) \/ ~IsIntText(data.quantity) THEN 500
  ELSE IF Strip(data.sku) = <<>> THEN 400
  ELSE IF Strip(data.name) = <<>> THEN 400
  ELSE IF IntOf(data.quantity) < 0 THEN 400
  ELSE IF data.price # "ok" THEN 400
  ELSE 0

(***************************************************************************)
(* POST /add_product: exception handlers                                   *)
(***************************************************************************)
UNIQUE_MSG == "UNIQUE constraint failed"
OTHER_MSG == "FOREIGN KEY constraint failed"

\* outer handlers, lines 153-163
OuterExcept(excType) ==
  CASE excType = "ValidationError" -> 400
    [] excType = "DatabaseError" -> 500
    [] OTHER -> 500

IntegrityStatus_NoTest(msg) == 500

\* lines 138-143
IntegrityStatus(msg) == IF msg = UNIQUE_MSG THEN 409 ELSE 500

\* inner handlers, lines 135-148: an IntegrityError is answered here, anything
\* else (a ValidationError too) is rolled back and re-raised as DatabaseError
InnerExcept(exc) ==
  IF exc.type = "IntegrityError" THEN IntegrityStatus(exc.msg)
  ELSE OuterExcept("DatabaseError")

(***************************************************************************)
(* The store, as add_product uses it                                       *)
(***************************************************************************)
NoRows == [products |-> {}, inventory |-> {}, txns |-> {}]

\* uuid.uuid4(): an identifier no other request generates
NewId(r) == r

ProductRow(r) == [id |-> NewId(r), sku |-> req[r].sku]

InventoryRow(r) == [id |-> NewId(r), product_id |-> NewId(r),
                    warehouse_id |-> req[r].warehouse_id,
                    current_stock |-> req[r].quantity]

TxnRow(r) == [id |-> NewId(r), product_id |-> NewId(r),
              warehouse_id |-> req[r].warehouse_id,
              transaction_type |-> "INITIAL_STOCK",
              quantity |-> req[r].quantity]

\* SELECT id FROM warehouses WHERE id = ?
WarehouseExists(w) == w \in ExistingWarehouses

\* SELECT id FROM products WHERE sku = ?  (committed rows and the request's own)
SkuFound(r, sku) == \E p \in products \cup pending[r].products : p.sku = sku

\* the unique index on products.sku, against committed rows
SkuCommitted(sku) == \E p \in products : p.sku = sku

\* a row with this sku written by another transaction that is still open:
\* the store makes the INSERT wait for that transaction (or fail, StoreFailure)
SkuLockedByOther(r, sku) ==
  \E o \in Req \ {r} : \E p \in pending[o].products : p.sku = sku

InsertConflict_OrIgnore(r, sku) == FALSE

\* INSERT INTO products (lines 88-93): a plain INSERT, so a row whose sku is
\* already committed raises IntegrityError
InsertConflict(r, sku) == SkuCommitted(sku)

Flush_Autocommit(rows) == rows

\* rows an INSERT makes visible to other connections by itself: none, every
\* statement runs inside the transaction opened at line 73
Flush(rows) == NoRows

Merge(a, b) == [products |-> a.products \cup b.products,
                inventory |-> a.inventory \cup b.inventory,
                txns |-> a.txns \cup b.txns]

Minus(a, b) == [products |-> a.products \ b.products,
                inventory |-> a.inventory \ b.inventory,
                txns |-> a.txns \ b.txns]

Committed == [products |-> products, inventory |-> inventory, txns |-> inv_txns]

SetCommitted(c) ==
  /\ products' = c.products
  /\ inventory' = c.inventory
  /\ inv_txns' = c.txns

\* a statement of request r wrote `rows` inside its transaction
Write(r, rows) ==
  LET now == Merge(pending[r], rows) IN
  /\ SetCommitted(Merge(Committed, Flush(now)))
  /\ pending' = [pending EXCEPT ![r] = Minus(now, Flush(now))]

\* an exception inside the inner try (lines 135-151): rollback, close, answer
Raise(r, exc, why) ==
  /\ pending' = [pending EXCEPT ![r] = NoRows]
  /\ status' = [status EXCEPT ![r] = InnerExcept(exc)]
  /\ cause' = [cause EXCEPT ![r] = why]
  /\ pc' = [pc EXCEPT ![r] = "done"]
  /\ UNCHANGED <<products, inventory, inv_txns, req>>

Goto(r, next) ==
  /\ pc' = [pc EXCEPT ![r] = next]
  /\ UNCHANGED <<status, cause, req>>

(***************************************************************************)
(* POST /add_product: the steps of one request                             *)
(***************************************************************************)
\* lines 27-69: read the body, validate, connect
Receive(r) ==
  /\ pc[r] = "idle"
  /\ \E data \in DataInputs :
       LET v == Validate(data) IN
       IF v # 0
       THEN /\ status' = [status EXCEPT ![r] = v]
            /\ cause' = [cause EXCEPT ![r] = "validation"]
            /\ pc' = [pc EXCEPT ![r] = "done"]
            /\ req' = req
       ELSE /\ req' = [req EXCEPT ![r] = [sku |-> Strip(data.sku),
                                          warehouse_id |-> IntOf(data.warehouse_id),
                                          quantity |-> IntOf(data.quantity)]]
            /\ pc' = [pc EXCEPT ![r] = "begin"]
            /\ UNCHANGED <<status, cause>>
  /\ UNCHANGED <<products, inventory, inv_txns, pending, readVars>>

\* line 73
Begin(r) ==
  /\ pc[r] = "begin"
  /\ Goto(r, "wh_check")
  /\ UNCHANGED <<products, inventory, inv_txns, pending, readVars>>

\* lines 76-79
WarehouseCheck(r) ==
  /\ pc[r] = "wh_check"
  /\ IF WarehouseExists(req[r].warehouse_id)
     THEN /\ Goto(r, "sku_check")
          /\ UNCHANGED <<products, inventory, inv_txns, pending>>
     ELSE Raise(r, [type |-> "ValidationError", msg |-> "warehouse"], "warehouse_not_found")
  /\ UNCHANGED readVars

\* lines 81-84
SkuCheck(r) ==
  /\ pc[r] = "sku_check"
  /\ IF SkuFound(r, req[r].sku)
     THEN Raise(r, [type |-> "ValidationError", msg |-> "sku"], "duplicate_precheck")
     ELSE /\ Goto(r, "ins_product")
          /\ UNCHANGED <<products, inventory, inv_txns, pending>>
  /\ UNCHANGED readVars

\* lines 86-93
InsertProduct(r) ==
  /\ pc[r] = "ins_product"
  /\ ~SkuLockedByOther(r, req[r].sku)
  /\ IF InsertConflict(r, req[r].sku)
     THEN Raise(r, [type |-> "IntegrityError", msg |-> UNIQUE_MSG], "unique_violation")
     ELSE /\ Write(r, [NoRows EXCEPT !.products =
                         IF SkuCommitted(req[r].sku) THEN {} ELSE {ProductRow(r)}])
          /\ Goto(r, "ins_inventory")
  /\ UNCHANGED readVars

\* lines 95-102
InsertInventory(r) ==
  /\ pc[r] = "ins_inventory"
  /\ Write(r, [NoRows EXCEPT !.inventory = {InventoryRow(r)}])
  /\ Goto(r, "ins_txn")
  /\ UNCHANGED readVars

\* lines 104-112
InsertTxn(r) ==
  /\ pc[r] = "ins_txn"
  /\ Write(r, [NoRows EXCEPT !.txns = {TxnRow(r)}])
  /\ Goto(r, "commit")
  /\ UNCHANGED readVars

\* lines 114-133
Commit(r) ==
  /\ pc[r] = "commit"
  /\ SetCommitted(Merge(Committed, pending[r]))
  /\ pending' = [pending EXCEPT ![r] = NoRows]
  /\ status' = [status EXCEPT ![r] = 201]
  /\ cause' = [cause EXCEPT ![r] = "created"]
  /\ pc' = [pc EXCEPT ![r] = "done"]
  /\ UNCHANGED <<req, readVars>>

InTransaction(r) ==
  pc[r] \in {"begin", "wh_check", "sku_check", "ins_product", "ins_inventory", "ins_txn", "commit"}

\* any statement, BEGIN and COMMIT included, can fail in the store
\* (sqlite3.OperationalError: database is locked, disk I/O error, ...)
StoreFailure(r) ==
  /\ InTransaction(r)
  /\ Raise(r, [type |-> "OperationalError", msg |-> "store"], "store_failure")
  /\ UNCHANGED readVars

\* an INSERT can violate a constraint other than the unique index
IntegrityOther(r) ==
  /\ pc[r] \in {"ins_product", "ins_inventory", "ins_txn"}
  /\ Raise(r, [type |-> "IntegrityError", msg |-> OTHER_MSG], "integrity_other")
  /\ UNCHANGED readVars

(***************************************************************************)
(* The store, as the read endpoints use it                                 *)
(*                                                                         *)
(* db.items: one entry per inventory row, joined with its product          *)
(* (products p JOIN inventory i ON p.id = i.product_id); db.sales: the     *)
(* rows of sales_transactions, age = whole days between sale_date and now. *)
(* supplier_id 0 is NULL.  The endpoints keep no state between requests:  *)
(* a behaviour is one request on one store content, resp its response.     *)
(***************************************************************************)
ProductIds == {1, 2}
Companies == {[id |-> 1, is_active |-> TRUE], [id |-> 2, is_active |-> TRUE],
              [id |-> 3, is_active |-> FALSE]}
Warehouses == {[id |-> 1, is_active |-> TRUE], [id |-> 2, is_active |-> FALSE]}
Suppliers == {[id |-> 1, is_active |-> TRUE], [id |-> 2, is_active |-> FALSE]}
ReorderQuantity == 7   \* products.reorder_quantity of every product of the model

SaleA == [id |-> 1, product_id |-> 1, warehouse_id |-> 1, age |-> 0, quantity_sold |-> 1]
SaleB == [id |-> 2, product_id |-> 1, warehouse_id |-> 1, age |-> 0, quantity_sold |-> 2]
SaleC == [id |-> 3, product_id |-> 1, warehouse_id |-> 1, age |-> 10, quantity_sold |-> 1]
SaleD == [id |-> 4, product_id |-> 1, warehouse_id |-> 1, age |-> 40, quantity_sold |-> 3]
SaleE == [id |-> 5, product_id |-> 2, warehouse_id |-> 2, age |-> 0, quantity_sold |-> 1]
SalesScenarios == {{}, {SaleA, SaleE}, {SaleA, SaleB}, {SaleA, SaleC}, {SaleB, SaleD}}

NoDb == [kind |-> "none"]
NoResp == [kind |-> "none"]

WarehouseActive(w) == \E x \in Warehouses : x.id = w /\ x.is_active
SupplierActive(sid) == \E x \in Suppliers : x.id = sid /\ x.is_active
SupplierLinked(sid) == \E x \in Suppliers : x.id = sid
CompanyActive(c) == \E x \in Companies : x.id = c /\ x.is_active

\* SUM(quantity_sold)
RECURSIVE SumQty(_)
SumQty(S) ==
  IF S = {} THEN 0
  ELSE LET x == CHOOSE y \in S : TRUE IN x.quantity_sold + SumQty(S \ {x})

\* WHERE st.product_id = p.id AND st.warehouse_id = w.id
\*   AND st.sale_date >= DATE('now', '-N days')
SalesInWindow(it, n) ==
  {st \in db.sales : st.product_id = it.product_id
                     /\ st.warehouse_id = it.warehouse_id /\ st.age <= n}

\* a rational, num/den with den > 0
Rat(n, d) == [num |-> n, den |-> d]

\* lines 84-95: AVG over the per-day SUMs, COALESCE(..., 0)
AvgDailySales(it, n) ==
  LET S == SalesInWindow(it, n)
      days == {st.age : st \in S}
  IN IF S = {} THEN Rat(0, 1) ELSE Rat(SumQty(S), Cardinality(days))

\* lines 97-104
TotalRecentSales(it, n) == SumQty(SalesInWindow(it, n))

(***************************************************************************)
(* Stockout projection, lines 140-165                                      *)
(***************************************************************************)
None == <<>>
Some(x) == <<x>>

DaysUntilStockout_Ceil(current_stock, avg) ==
  (current_stock * avg.den + avg.num - 1) \div avg.num

\* int(current_stock / avg_daily_sales), for avg > 0
DaysUntilStockout(current_stock, avg) == (current_stock * avg.den) \div avg.num

Projector(current_stock, avg, threshold) ==
  IF current_stock = 0
  THEN [days_until_stockout |-> Some(0), urgency_level |-> "CRITICAL"]
  ELSE IF avg.num <= 0
  THEN [days_until_stockout |-> None,
        urgency_level |-> IF 2 * current_stock > threshold THEN "LOW" ELSE "MEDIUM"]
  ELSE LET d == DaysUntilStockout(current_stock, avg) IN
       [days_until_stockout |-> Some(d),
        urgency_level |-> IF d <= 7 THEN "CRITICAL"
                          ELSE IF d <= 14 THEN "HIGH"
                          ELSE IF d <= 30 THEN "MEDIUM" ELSE "LOW"]

Max(a, b) == IF a >= b THEN a ELSE b

\* round(x, 1) of x = n/d >= 0, in tenths, ties to even
RoundTenths(n, d) ==
  LET q == (10 * n) \div d
      r == (10 * n) % d
  IN IF 2 * r < d THEN q
     ELSE IF 2 * r > d THEN q + 1
     ELSE IF q % 2 = 0 THEN q ELSE q + 1

\* lines 165, 181: round((current_stock / max(threshold, 1)) * 100, 1), in tenths
StockCoverageRatio(current_stock, threshold) ==
  RoundTenths(100 * current_stock, Max(threshold, 1))

(***************************************************************************)
(* GET /api/v1/inventory/low-stock-alerts/<company_id>                     *)
(***************************************************************************)
AlertsSelected_NoZeroFilter(company_id, include_zero_stock, warehouse_id) ==
  {id \in DOMAIN db.items :
     LET it == db.items[id] IN
     /\ it.company_id = company_id
     /\ it.is_active
     /\ WarehouseActive(it.warehouse_id)
     /\ it.current_stock <= it.low_stock_threshold
     /\ (warehouse_id # 0 => it.warehouse_id = warehouse_id)}

\* lines 105-123: the WHERE clause with its optional filters
AlertsSelected(company_id, include_zero_stock, warehouse_id) ==
  {id \in DOMAIN db.items :
     LET it == db.items[id] IN
     /\ it.company_id = company_id
     /\ it.is_active
     /\ WarehouseActive(it.warehouse_id)
     /\ it.current_stock <= it.low_stock_threshold
     /\ (~include_zero_stock => it.current_stock > 0)
     /\ (warehouse_id # 0 => it.warehouse_id = warehouse_id)}

ZeroGroup(it) == IF it.current_stock = 0 THEN 0 ELSE 1

\* current_stock::FLOAT / NULLIF(threshold, 0) is NULL when the threshold is 0
KeyIsNull(it) == it.low_stock_threshold = 0

\* comparison of the second ORDER BY key; nullsLast: where the store puts NULL
KeyLess(a, b, nullsLast) ==
  IF KeyIsNull(a) /\ KeyIsNull(b) THEN FALSE
  ELSE IF KeyIsNull(a) THEN ~nullsLast
  ELSE IF KeyIsNull(b) THEN nullsLast
  ELSE a.current_stock * b.low_stock_threshold < b.current_stock * a.low_stock_threshold

AlertOrder_NameFirst(a, b, nullsLast) ==
  \/ ZeroGroup(a) < ZeroGroup(b)
  \/ /\ ZeroGroup(a) = ZeroGroup(b)
     /\ \/ a.name < b.name
        \/ a.name = b.name /\ ~KeyLess(b, a, nullsLast)

\* lines 125-131: ORDER BY zero-stock group, ratio ASC, name ASC
AlertOrder(a, b, nullsLast) ==
  \/ ZeroGroup(a) < ZeroGroup(b)
  \/ /\ ZeroGroup(a) = ZeroGroup(b)
     /\ \/ KeyLess(a, b, nullsLast)
        \/ ~KeyLess(b, a, nullsLast) /\ a.name <= b.name

\* every order of the ids in S the ORDER BY allows
Orderings(S, LE(_, _)) ==
  {q \in [1..Cardinality(S) -> S] :
     /\ \A i, j \in DOMAIN q : i # j => q[i] # q[j]
     /\ \A i, j \in DOMAIN q : i < j => LE(q[i], q[j])}

\* LEFT JOIN suppliers (line 108) and lines 189-194
SupplierBlock(it) ==
  IF it.supplier_id # 0 /\ SupplierLinked(it.supplier_id)
  THEN Some(it.supplier_id) ELSE None

\* lines 139-198: one alert per result row
Alert(it, days_lookback) ==
  LET avg == AvgDailySales(it, days_lookback)
      pr == Projector(it.current_stock, avg, it.low_stock_threshold)
  IN [product_id |-> it.product_id,
      product_name |-> it.name,
      warehouse_id |-> it.warehouse_id,
      current_stock |-> it.current_stock,
      low_stock_threshold |-> it.low_stock_threshold,
      stock_coverage_ratio |-> StockCoverageRatio(it.current_stock, it.low_stock_threshold),
      avg_daily_sales |-> avg,
      total_recent_sales |-> TotalRecentSales(it, days_lookback),
      days_until_stockout |-> pr.days_until_stockout,
      supplier |-> SupplierBlock(it),
      urgency_level |-> pr.urgency_level]

AlertsError(code, company_id) ==
  [kind |-> "alerts", status |-> code, company_id |-> company_id]

GetLowStockAlerts(company_id, days_lookback, include_zero_stock, warehouse_id) ==
  /\ db.kind = "store" /\ resp.kind = "none"
  /\ IF company_id = 0 THEN resp' = AlertsError(400, company_id)
     ELSE IF days_lookback <= 0 \/ days_lookback > 365 THEN resp' = AlertsError(400, company_id)
     ELSE IF ~CompanyActive(company_id) THEN resp' = AlertsError(404, company_id)
     ELSE \/ resp' = AlertsError(500, company_id)    \* sqlite3.Error from the store
          \/ \E nullsLast \in BOOLEAN :
               LET LE(x, y) == AlertOrder(db.items[x], db.items[y], nullsLast) IN
               \E q \in Orderings(AlertsSelected(company_id, include_zero_stock, warehouse_id), LE) :
                 resp' = [kind |-> "alerts", status |-> 200, company_id |-> company_id,
                          days_lookback |-> days_lookback,
                          include_zero_stock |-> include_zero_stock,
                          warehouse_filter |-> warehouse_id,
                          alerts |-> [i \in DOMAIN q |-> Alert(db.items[q[i]], days_lookback)]]
  /\ UNCHANGED <<db, writeVars>>

(***************************************************************************)
(* GET /api/v1/inventory/reorder-suggestions/<company_id>                  *)
(***************************************************************************)
\* the avg_sales subquery, lines 267-275: AVG(quantity_sold) over the sales
\* of the last 30 days, one group per (product_id, warehouse_id); no group,
\* and so a NULL daily_avg, when there is no such sale
ReorderWindow == 30

HasAvgSales(it) == SalesInWindow(it, ReorderWindow) # {}

DailyAvg(it) ==
  LET S == SalesInWindow(it, ReorderWindow) IN Rat(SumQty(S), Cardinality(S))

\* lines 258-262; CAST(x AS INTEGER) truncates
SuggestedQuantity(it) ==
  IF HasAvgSales(it) /\ DailyAvg(it).num > 0
  THEN (DailyAvg(it).num * 30) \div DailyAvg(it).den
  ELSE it.reorder_quantity

ReorderSelected_AnySupplier(company_id) ==
  {id \in DOMAIN db.items :
     LET it == db.items[id] IN
     /\ it.company_id = company_id
     /\ it.current_stock <= it.low_stock_threshold
     /\ it.is_active}

\* lines 263-279: the joins and the WHERE clause; s.is_active = TRUE is not
\* true of the NULL row a LEFT JOIN gives a product without supplier
ReorderSelected(company_id) ==
  {id \in DOMAIN db.items :
     LET it == db.items[id] IN
     /\ it.company_id = company_id
     /\ it.current_stock <= it.low_stock_threshold
     /\ it.is_active
     /\ it.supplier_id # 0 /\ SupplierActive(it.supplier_id)}

\* daily_avg DESC, a NULL daily_avg placed where the store puts NULL
AvgGreater(a, b, nullsLast) ==
  IF ~HasAvgSales(a) /\ ~HasAvgSales(b) THEN FALSE
  ELSE IF ~HasAvgSales(a) THEN ~nullsLast
  ELSE IF ~HasAvgSales(b) THEN nullsLast
  ELSE DailyAvg(a).num * DailyAvg(b).den > DailyAvg(b).num * DailyAvg(a).den

\* line 280: ORDER BY i.current_stock ASC, avg_sales.daily_avg DESC
ReorderOrder(a, b, nullsLast) ==
  \/ a.current_stock < b.current_stock
  \/ a.current_stock = b.current_stock /\ ~AvgGreater(b, a, nullsLast)

\* lines 283-295
Suggestion(it) ==
  [product_id |-> it.product_id,
   product_name |-> it.name,
   current_stock |-> it.current_stock,
   warehouse_id |-> it.warehouse_id,
   supplier |-> it.supplier_id,
   suggested_order_quantity |-> SuggestedQuantity(it),
   default_reorder_quantity |-> it.reorder_quantity]

GetReorderSuggestions(company_id) ==
  /\ db.kind = "store" /\ resp.kind = "none"
  /\ \/ resp' = [kind |-> "reorder", status |-> 500, company_id |-> company_id]
     \/ \E nullsLast \in BOOLEAN :
          LET LE(x, y) == ReorderOrder(db.items[x], db.items[y], nullsLast) IN
          \E q \in Orderings(ReorderSelected(company_id), LE) :
            resp' = [kind |-> "reorder", status |-> 200, company_id |-> company_id,
                     reorder_suggestions |-> [i \in DOMAIN q |-> Suggestion(db.items[q[i]])]]
  /\ UNCHANGED <<db, writeVars>>

\* the per-row block of get_low_stock_alerts (lines 140-165) on its own
Project ==
  /\ db.kind = "projector" /\ resp.kind = "none"
  /\ resp' = [kind |-> "projection",
              projection |-> Projector(db.current_stock, db.avg_daily_sales, db.low_stock_threshold),
              stock_coverage_ratio |-> StockCoverageRatio(db.current_stock, db.low_stock_threshold)]
  /\ UNCHANGED <<db, writeVars>>

(***************************************************************************)
(* Specifications                                                          *)
(***************************************************************************)
InitWrite ==
  /\ products = {}
  /\ inventory = {}
  /\ inv_txns = {}
  /\ pending = [r \in Req |-> NoRows]
  /\ pc = [r \in Req |-> "idle"]
  /\ req = [r \in Req |-> NoReq]
  /\ status = [r \in Req |-> 0]
  /\ cause = [r \in Req |-> "none"]

\* POST /add_product, NumReq requests in any interleaving, on an empty catalog
Init ==
  /\ InitWrite
  /\ db = NoDb
  /\ resp = NoResp

Next ==
  \E r \in Req :
    \/ Receive(r)
    \/ Begin(r)
    \/ WarehouseCheck(r)
    \/ SkuCheck(r)
    \/ InsertProduct(r)
    \/ InsertInventory(r)
    \/ InsertTxn(r)
    \/ Commit(r)
    \/ StoreFailure(r)
    \/ IntegrityOther(r)

Spec == Init /\ [][Next]_vars

Item(id, c, act, w, sup, name, thr, stock) ==
  [product_id |-> id, company_id |-> c, is_active |-> act, warehouse_id |-> w,
   supplier_id |-> sup, name |-> name, low_stock_threshold |-> thr,
   current_stock |-> stock, reorder_quantity |-> ReorderQuantity]

SelectThreshold == 1   \* low_stock_threshold of every product in InitRead

\* the read endpoints on a store whose products differ in company, flags,
\* warehouse, supplier and stock
InitRead ==
  /\ InitWrite
  /\ resp = NoResp
  /\ \E sales \in SalesScenarios :
     \E f \in [ProductIds -> [c : {1, 2}, act : BOOLEAN, w : {1, 2}, sup : {0, 1, 2},
                              stock : 0..MaxStock]] :
       db = [kind |-> "store", sales |-> sales,
             items |-> [id \in ProductIds |->
                          Item(id, f[id].c, f[id].act, f[id].w, f[id].sup, id,
                               SelectThreshold, f[id].stock)]]

CompanyParams == {0, 1, 2, 3}
LookbackParams == {0, 7, 30}
WarehouseParams == {0, 1, 2}

NextRead ==
  \/ \E c \in CompanyParams, n \in LookbackParams, z \in BOOLEAN, w \in WarehouseParams :
       GetLowStockAlerts(c, n, z, w)
  \/ \E c \in CompanyParams : GetReorderSuggestions(c)

SpecRead == InitRead /\ [][NextRead]_vars


\* the alerts endpoint on a store whose products all pass the selection and
\* differ in name, threshold and stock
InitSort ==
  /\ InitWrite
  /\ resp = NoResp
  /\ \E f \in [1..NumSortRows -> [name : 1..NumNames, thr : 0..MaxThreshold, stock : 0..MaxStock]] :
       db = [kind |-> "store", sales |-> {},
             items |-> [id \in 1..NumSortRows |->
                          Item(id, 1, TRUE, 1, 0, f[id].name, f[id].thr, f[id].stock)]]

NextSort ==
  \/ \E z \in BOOLEAN : GetLowStockAlerts(1, 30, z, 0)
  \/ GetReorderSuggestions(1)

SpecSort == InitSort /\ [][NextSort]_vars

\* the stockout projection on its own inputs
InitProjector ==
  /\ InitWrite
  /\ resp = NoResp
  /\ \E s \in 0..MaxProjStock, t \in 0..MaxProjThreshold,
        n \in 0..MaxSaleTotal, d \in 1..MaxSaleDays :
       db = [kind |-> "projector", current_stock |-> s, low_stock_threshold |-> t,
             avg_daily_sales |-> Rat(n, d)]

SpecProjector == InitProjector /\ [][Project]_vars

(***************************************************************************)
(* Claims about POST /add_product                                          *)
(***************************************************************************)
Done(r) == pc[r] = "done"

\* the request passed the field validation and opened a transaction
Entered(r) == cause[r] # "validation" /\ pc[r] # "idle"

RowsOf(id) == [products |-> {p \in products : p.id = id},
               inventory |-> {i \in inventory : i.product_id = id},
               txns |-> {t \in inv_txns : t.product_id = id}]

\* a finished pair of requests that carried the same SKU, both well-formed,
\* both naming an existing warehouse, neither hit by a store failure
RacePair(a, b) ==
  /\ a # b /\ Done(a) /\ Done(b) /\ Entered(a) /\ Entered(b)
  /\ req[a].sku = req[b].sku
  /\ {cause[a], cause[b]} \subseteq {"created", "duplicate_precheck", "unique_violation"}

NonSpaceIdx(s) == {i \in 1..Len(s) : s[i] # SPACE}

Trimmed(s) ==
  IF NonSpaceIdx(s) = {} THEN <<>>
  ELSE SubSeq(s, CHOOSE i \in NonSpaceIdx(s) : \A j \in NonSpaceIdx(s) : i <= j,
                 CHOOSE i \in NonSpaceIdx(s) : \A j \in NonSpaceIdx(s) : i >= j)

\* C2: no two committed product rows have the same trimmed SKU, and at most
\* one request per trimmed SKU has returned 201.
C2_SkuUnique ==
  /\ \A p, q \in products : Trimmed(p.sku) = Trimmed(q.sku) => p = q
  /\ \A a, b \in Req :
       (status[a] = 201 /\ status[b] = 201 /\ Trimmed(req[a].sku) = Trimmed(req[b].sku)) => a = b

C2_Witness ==
  \E a, b \in Req :
    /\ a # b /\ status[a] = 201 /\ Done(b) /\ Entered(b) /\ status[b] # 201
    /\ Trimmed(req[a].sku) = Trimmed(req[b].sku)
    /\ cause[b] = "duplicate_precheck"
    /\ \E p \in products : p.id = NewId(a) /\ p.sku = req[a].sku

\* C3: in the committed store each product id has all three rows (product,
\* inventory with the requested quantity, INITIAL_STOCK audit row with that
\* quantity) or none, and no inventory or audit row lacks its product row.
C3_AllOrNothing ==
  /\ \A id \in Req :
       \/ RowsOf(id) = NoRows
       \/ /\ Cardinality(RowsOf(id).products) = 1
          /\ RowsOf(id).inventory = {[id |-> id, product_id |-> id,
                                      warehouse_id |-> req[id].warehouse_id,
                                      current_stock |-> req[id].quantity]}
          /\ RowsOf(id).txns = {[id |-> id, product_id |-> id,
                                 warehouse_id |-> req[id].warehouse_id,
                                 transaction_type |-> "INITIAL_STOCK",
                                 quantity |-> req[id].quantity]}
  /\ \A i \in inventory : \E p \in products : p.id = i.product_id
  /\ \A t \in inv_txns : \E p \in products : p.id = t.product_id

\* one request is committed with its three rows while another has written
\* product and inventory rows inside a transaction that is still open
C3_Witness ==
  \E a, b \in Req :
    /\ a # b /\ status[a] = 201 /\ RowsOf(a) # NoRows
    /\ pc[b] \in {"ins_txn", "commit"}
    /\ pending[b].products # {} /\ pending[b].inventory # {}
    /\ RowsOf(b) = NoRows

\* C4 as stated: a well-formed request that fails the warehouse check or the
\* SKU pre-check is answered 400 and writes no row.
C4_Original ==
  \A r \in Req :
    cause[r] \in {"warehouse_not_found", "duplicate_precheck"} =>
      /\ status[r] = 400
      /\ RowsOf(r) = NoRows /\ pending[r] = NoRows

\* C5: a request whose insert the store rejects for uniqueness after its
\* pre-check passed is rolled back and answered 409, and 409 is answered in
\* no other situation.
C5_ConflictOnly ==
  \A r \in Req :
    /\ cause[r] = "unique_violation" =>
         status[r] = 409 /\ pending[r] = NoRows /\ RowsOf(r) = NoRows
    /\ status[r] = 409 => cause[r] = "unique_violation"
    /\ cause[r] \in {"duplicate_precheck", "integrity_other", "store_failure"} => status[r] = 500

C5_Witness ==
  \E r \in Req :
    /\ cause[r] = "unique_violation" /\ Done(r)
    /\ status[r] = 409 /\ pending[r] = NoRows

(***************************************************************************)
(* Claims about the read endpoints                                         *)
(***************************************************************************)
AlertsOk == resp.kind = "alerts" /\ resp.status = 200
ReorderOk == resp.kind = "reorder" /\ resp.status = 200

SameGroup(a, b) == (a.current_stock = 0) <=> (b.current_stock = 0)

PolicyHolds(stock, avg, threshold, days, urgency) ==
  /\ stock = 0 => (days = Some(0) /\ urgency = "CRITICAL")
  /\ (stock # 0 /\ avg.num <= 0) =>
       /\ days = None
       /\ (10 * stock > 5 * threshold => urgency = "LOW")
       /\ (10 * stock <= 5 * threshold => urgency = "MEDIUM")
  /\ (stock # 0 /\ avg.num > 0) =>
       \E d \in 0..(stock * avg.den) :
         /\ days = Some(d)
         /\ d * avg.num <= stock * avg.den /\ stock * avg.den < (d + 1) * avg.num
         /\ (d <= 7 => urgency = "CRITICAL")
         /\ (d > 7 /\ d <= 14 => urgency = "HIGH")
         /\ (d > 14 /\ d <= 30 => urgency = "MEDIUM")
         /\ (d > 30 => urgency = "LOW")

\* C7: days_until_stockout and urgency_level follow the three-rule policy,
\* for the projection on its own and for every row of an alert list.
C7_Policy ==
  /\ resp.kind = "projection" =>
       PolicyHolds(db.current_stock, db.avg_daily_sales, db.low_stock_threshold,
                   resp.projection.days_until_stockout, resp.projection.urgency_level)
  /\ AlertsOk =>
       \A i \in DOMAIN resp.alerts :
         LET a == resp.alerts[i] IN
         PolicyHolds(a.current_stock, a.avg_daily_sales, a.low_stock_threshold,
                     a.days_until_stockout, a.urgency_level)

\* stock 20 with 2 sold a day: 10 days, HIGH
C7_Witness ==
  /\ resp.kind = "projection"
  /\ db.current_stock = 20 /\ db.avg_daily_sales = Rat(2, 1)
  /\ resp.projection = [days_until_stockout |-> Some(10), urgency_level |-> "HIGH"]

\* C8 as stated: every suggestion is for a product of the company that is
\* active, in an active warehouse, with current_stock <= low_stock_threshold.
C8_Original ==
  ReorderOk =>
    \A i \in DOMAIN resp.reorder_suggestions :
      LET it == db.items[resp.reorder_suggestions[i].product_id] IN
      /\ it.company_id = resp.company_id
      /\ it.is_active
      /\ WarehouseActive(it.warehouse_id)
      /\ it.current_stock <= it.low_stock_threshold

\* C9 as stated: the suggested quantity is floor(avg x 30) for a positive
\* 30-day velocity (mean of the per-day totals), else reorder_quantity.
C9_Original ==
  ReorderOk =>
    \A i \in DOMAIN resp.reorder_suggestions :
      LET sg == resp.reorder_suggestions[i]
          avg == AvgDailySales(db.items[sg.product_id], 30)
      IN sg.suggested_order_quantity =
           IF avg.num > 0 THEN (avg.num * 30) \div avg.den
           ELSE db.items[sg.product_id].reorder_quantity

\* the rows the alert selection of the request keeps, by the predicate of 4.3
AlertPredicate(it) ==
  /\ it.company_id = resp.company_id
  /\ it.is_active
  /\ WarehouseActive(it.warehouse_id)
  /\ it.current_stock <= it.low_stock_threshold
  /\ (it.current_stock = 0 => resp.include_zero_stock)
  /\ (resp.warehouse_filter # 0 => it.warehouse_id = resp.warehouse_filter)

\* C10: no suggestion is for a product whose supplier is inactive or absent;
\* the alerts still list such a product, with a supplier block exactly when
\* a supplier is linked.
C10_SupplierAsymmetry ==
  /\ ReorderOk =>
       \A i \in DOMAIN resp.reorder_suggestions :
         LET it == db.items[resp.reorder_suggestions[i].product_id] IN
         it.supplier_id # 0 /\ SupplierActive(it.supplier_id)
  /\ AlertsOk =>
       /\ \A id \in DOMAIN db.items :
            (AlertPredicate(db.items[id]) /\ ~SupplierActive(db.items[id].supplier_id)) =>
              \E i \in DOMAIN resp.alerts : resp.alerts[i].product_id = id
       /\ \A i \in DOMAIN resp.alerts :
            LET it == db.items[resp.alerts[i].product_id] IN
            resp.alerts[i].supplier =
              IF it.supplier_id = 0 THEN None ELSE Some(it.supplier_id)

\* suggestions were produced while a product of the company is at or below
\* its threshold with an inactive supplier, and another without supplier
C10_Witness ==
  /\ ReorderOk
  /\ \E x, y \in DOMAIN db.items :
       /\ db.items[x].supplier_id = 2 /\ db.items[y].supplier_id = 0
       /\ \A id \in {x, y} :
            /\ db.items[id].company_id = resp.company_id
            /\ db.items[id].is_active
            /\ WarehouseActive(db.items[id].warehouse_id)
            /\ db.items[id].current_stock <= db.items[id].low_stock_threshold
            /\ \A i \in DOMAIN resp.reorder_suggestions :
                 resp.reorder_suggestions[i].product_id # id

\* C11: a successful alerts request lists exactly the inventory rows that
\* satisfy the selection predicate of the request, each once: none that
\* violates it, none that satisfies it left out.
C11_ExactSelection ==
  AlertsOk =>
    /\ {resp.alerts[i].product_id : i \in DOMAIN resp.alerts}
         = {id \in DOMAIN db.items : AlertPredicate(db.items[id])}
    /\ \A i, j \in DOMAIN resp.alerts :
         resp.alerts[i].product_id = resp.alerts[j].product_id => i = j
    /\ \A i \in DOMAIN resp.alerts :
         LET it == db.items[resp.alerts[i].product_id] IN
         /\ resp.alerts[i].warehouse_id = it.warehouse_id
         /\ resp.alerts[i].current_stock = it.current_stock

\* with include_zero_stock = false and a warehouse filter, one product is
\* listed and a zero-stock product of the same company and warehouse is not
C11_Witness ==
  /\ AlertsOk
  /\ ~resp.include_zero_stock /\ resp.warehouse_filter = 1
  /\ Len(resp.alerts) = 1
  /\ \E id \in DOMAIN db.items :
       /\ db.items[id].company_id = resp.company_id
       /\ db.items[id].is_active
       /\ db.items[id].warehouse_id = 1
       /\ db.items[id].current_stock = 0
       /\ resp.alerts[1].product_id # id

====
